---- MODULE Spec2Model ----
(***************************************************************************)
(* wcat (src/initial-utilities/wcat/wcat.c): main() opens every path of    *)
(* argv[1..] in turn, copies it to standard output through a 1000-byte     *)
(* line buffer with fgets/printf, and closes it.  The model follows main() *)
(* statement by statement; the C library calls (fopen, fgets, printf,      *)
(* fclose) are modelled by their ISO C behaviour on byte strings.          *)
(***************************************************************************)
EXTENDS Integers, Sequences, FiniteSets

VARIABLES
    argv,       \* argv[1..argc-1]: the paths given on the command line
    line,       \* char line[MAX_LINE_LENGTH], indices 0..MAX_LINE_LENGTH-1
    i,          \* the loop variable of main
    pc,         \* the statement main executes next
    fp,         \* the streams that are open (each named by its argument index)
    pos,        \* the read position of stream f
    stdout,     \* the bytes written to standard output so far
    exitCode,   \* the value main returned, NoExit while it runs
    \* history of the run, read by the properties only
    opened,     \* the argument indices passed to fopen, in call order
    mark,       \* Len(stdout) when the last fopen was called
    closed,     \* the argument indices passed to fclose, in call order
    start,      \* the read position before the last successful fgets
    load,       \* the bytes the last successful fgets consumed
    wr,         \* the bytes the last printf("%s", line) emitted
    rdErr,      \* the argument indices whose stream had a read error
    nDiag,      \* how many times the diagnostic was printed
    oob         \* TRUE once printf scanned past the end of line

vars == <<argv, line, i, pc, fp, pos, stdout, exitCode,
          opened, mark, closed, start, load, wr, rdErr, nDiag, oob>>

----------------------------------------------------------------------------
(* Program constants *)

MAX_LINE_LENGTH == 1000

NUL == 0
NL == 10
NoExit == -1

\* "wcat: cannot open file\n"
Diag == <<119, 99, 97, 116, 58, 32, 99, 97, 110, 110, 111, 116, 32,
          111, 112, 101, 110, 32, 102, 105, 108, 101, 10>>

----------------------------------------------------------------------------
(* Bounds of the model *)

MaxArgs == 2        \* at most this many paths on the command line
MaxLoads == 2       \* line lengths go up to about this many buffer loads
Slack == 1          \* ... give or take this many bytes

----------------------------------------------------------------------------
(* The file system the run sees.  A path is described by what fopen and    *)
(* the reads would find there:                                             *)
(*   ok   whether fopen(path, "r") succeeds                                *)
(*   len  the number of bytes before the optional final newline            *)
(*   nl   whether the file ends with a newline                             *)
(*   nul  the position (1..len) of a zero byte in the file, 0 for none     *)
(*   brk  the position (1..len) of an inner newline, 0 for none            *)

Path(ok, len, nl, nul, brk) ==
    [ok |-> ok, len |-> len, nl |-> nl, nul |-> nul, brk |-> brk]

Missing == Path(FALSE, 0, FALSE, 0, 0)

\* the ordinary bytes differ from their neighbours, so that a byte lost,
\* repeated or moved shows in the output
FillByte(k) == 97 + (k % 3)

Content(p) ==
    [k \in 1..(p.len + (IF p.nl THEN 1 ELSE 0)) |->
        IF k = p.len + 1 THEN NL
        ELSE IF k = p.nul THEN NUL
        ELSE IF k = p.brk THEN NL
        ELSE FillByte(k)]

\* the most bytes one fgets(line, MAX_LINE_LENGTH-1, f) consumes
Chunk == (MAX_LINE_LENGTH - 1) - 1

\* line lengths at, just under and just over a whole number of loads
BoundaryLens ==
    {k * Chunk + d : k \in 1..MaxLoads, d \in (0 - Slack)..Slack}

LongPaths ==
    {Path(TRUE, L, nl, 0, 0) : L \in BoundaryLens, nl \in BOOLEAN}
    \cup {Path(TRUE, L, TRUE, 2, 0) : L \in {MaxLoads * Chunk}}

CorePaths ==
    { Missing,
      Path(TRUE, 0, FALSE, 0, 0),          \* the empty file
      Path(TRUE, 3, FALSE, 0, 0),          \* no newline at the end
      Path(TRUE, 5, TRUE, 0, 3),           \* two short lines
      Path(TRUE, 5, TRUE, 2, 4),           \* a zero byte in the first line
      Path(TRUE, Chunk + 1, TRUE, 0, 0) }  \* one line of two loads

ArgLists ==
    UNION {[1..n -> CorePaths] : n \in 0..MaxArgs}
    \cup {<<p>> : p \in LongPaths}

GarbageBytes == {NUL, 204}

----------------------------------------------------------------------------
(* C library *)

\* the least j in lo..hi with f[j] = b, and hi+1 when there is none
RECURSIVE FirstByte(_, _, _, _)
FirstByte(f, b, lo, hi) ==
    IF lo > hi THEN hi + 1
    ELSE IF lo = hi THEN (IF f[lo] = b THEN lo ELSE hi + 1)
    ELSE IF \E j \in lo..((lo + hi) \div 2) : f[j] = b
         THEN FirstByte(f, b, lo, (lo + hi) \div 2)
         ELSE FirstByte(f, b, ((lo + hi) \div 2) + 1, hi)

\* faulty variant (C7): fgets that fills all n bytes with data
FgetsLen_n(data, p, n) ==
    LET most == IF Len(data) - p < n THEN Len(data) - p ELSE n
        j == FirstByte(data, NL, p + 1, p + most)
    IN  IF most <= 0 THEN 0
        ELSE IF j <= p + most THEN j - p
        ELSE most

\* fgets(s, n, stream): the number of bytes it consumes from `data` at
\* position p: up to and including the next newline, at most n-1, and no
\* more than are left
FgetsLen(data, p, n) ==
    LET most == IF Len(data) - p < n - 1 THEN Len(data) - p ELSE n - 1
        j == FirstByte(data, NL, p + 1, p + most)
    IN  IF most <= 0 THEN 0
        ELSE IF j <= p + most THEN j - p
        ELSE most

\* faulty variant (C4): when the load fills the space fgets was given, the zero
\* byte goes over its last byte
FgetsStore_full(s, data, p, k) ==
    [j \in DOMAIN s |->
        IF j < k /\ ~(k = MAX_LINE_LENGTH - 2 /\ j = k - 1)
        THEN data[p + 1 + j]
        ELSE IF j = k \/ (k = MAX_LINE_LENGTH - 2 /\ j = k - 1) THEN NUL
        ELSE s[j]]

\* faulty variant (C10): the bytes are stored with no zero byte after them
FgetsStore_noterm(s, data, p, k) ==
    [j \in DOMAIN s |-> IF j < k THEN data[p + 1 + j] ELSE s[j]]

\* fgets stores the k bytes read at s[0..k-1] and a zero byte at s[k]
FgetsStore(s, data, p, k) ==
    [j \in DOMAIN s |->
        IF j < k THEN data[p + 1 + j]
        ELSE IF j = k THEN NUL
        ELSE s[j]]

\* strlen(s): the index of the first zero byte, MAX_LINE_LENGTH when the
\* array holds none
Strlen(s) == FirstByte(s, NUL, 0, MAX_LINE_LENGTH - 1)

\* faulty variant (C1): puts(s): the string and a newline
PrintfS_puts(s) ==
    [j \in 1..(Strlen(s) + 1) |-> IF j <= Strlen(s) THEN s[j - 1] ELSE NL]

\* the bytes printf("%s", s) emits
PrintfS(s) == [j \in 1..Strlen(s) |-> s[j - 1]]

----------------------------------------------------------------------------
(* main *)

argc == Len(argv) + 1

Init ==
    /\ argv \in ArgLists
    /\ \E g \in GarbageBytes : line = [j \in 0..(MAX_LINE_LENGTH - 1) |-> g]
    /\ i = 0
    /\ pc = "start"
    /\ fp = {}
    /\ pos = 0
    /\ stdout = <<>>
    /\ exitCode = NoExit
    /\ opened = <<>>
    /\ mark = 0
    /\ closed = <<>>
    /\ start = 0
    /\ load = <<>>
    /\ wr = <<>>
    /\ rdErr = {}
    /\ nDiag = 0
    /\ oob = FALSE

\* faulty variant (C3): no path is treated as an error
Start_usage ==
    /\ pc = "start"
    /\ IF argc < 2
       THEN pc' = "fail" /\ i' = i
       ELSE pc' = "fopen" /\ i' = 1
    /\ UNCHANGED <<argv, line, fp, pos, stdout, exitCode, opened, mark,
                   closed, start, load, wr, rdErr, nDiag, oob>>

\* lines 8-13: if (argc < 2) return 0;  for (int i = 1; i < argc; ...
Start ==
    /\ pc = "start"
    /\ IF argc < 2
       THEN pc' = "done" /\ exitCode' = 0 /\ i' = i
       ELSE pc' = "fopen" /\ exitCode' = exitCode /\ i' = 1
    /\ UNCHANGED <<argv, line, fp, pos, stdout, opened, mark, closed, start,
                   load, wr, rdErr, nDiag, oob>>

\* lines 14-15: FILE *f = fopen(argv[i], "r");  if (!f)
Fopen ==
    /\ pc = "fopen"
    /\ opened' = Append(opened, i)
    /\ mark' = Len(stdout)
    /\ IF argv[i].ok
       THEN fp' = fp \cup {i} /\ pos' = 0 /\ pc' = "fgets"
       ELSE fp' = fp /\ pos' = pos /\ pc' = "fail"
    /\ UNCHANGED <<argv, line, i, stdout, exitCode, closed, start, load, wr,
                   rdErr, nDiag, oob>>

\* faulty variant (C2): after the diagnostic the loop goes on with the next path
Fail_skip ==
    /\ pc = "fail"
    /\ stdout' = stdout \o Diag
    /\ nDiag' = nDiag + 1
    /\ exitCode' = 1
    /\ i' = i + 1
    /\ pc' = (IF i + 1 < argc THEN "fopen" ELSE "done")
    /\ UNCHANGED <<argv, line, fp, pos, opened, mark, closed, start, load,
                   wr, rdErr, oob>>

\* lines 16-17: printf("wcat: cannot open file\n");  return 1;
Fail ==
    /\ pc = "fail"
    /\ stdout' = stdout \o Diag
    /\ nDiag' = nDiag + 1
    /\ exitCode' = 1
    /\ pc' = "done"
    /\ UNCHANGED <<argv, line, i, fp, pos, opened, mark, closed, start, load,
                   wr, rdErr, oob>>

\* faulty variant (C5): a read error is reported like a failed fopen
AfterFgets_err(gotLine, err) ==
    IF gotLine THEN "term" ELSE IF err THEN "fail" ELSE "fclose"

\* where the while loop of line 20 goes on the result of fgets
\* (the loop tests the result against NULL and never asks ferror)
AfterFgets(gotLine, err) == IF gotLine THEN "term" ELSE "fclose"

\* line 20: fgets(line, MAX_LINE_LENGTH-1, f) reads from the stream
Fgets ==
    /\ pc = "fgets"
    /\ LET data == Content(argv[i])
           k == FgetsLen(data, pos, MAX_LINE_LENGTH - 1)
       IN  /\ pc' = AfterFgets(k > 0, FALSE)
           /\ IF k > 0
              THEN /\ line' = FgetsStore(line, data, pos, k)
                   /\ start' = pos
                   /\ pos' = pos + k
                   /\ load' = SubSeq(data, pos + 1, pos + k)
              ELSE UNCHANGED <<line, start, pos, load>>
    /\ UNCHANGED <<argv, i, fp, stdout, exitCode, opened, mark, closed, wr,
                   rdErr, nDiag, oob>>

\* line 20: the read fails; fgets returns NULL and leaves the array
\* indeterminate
FgetsError ==
    /\ pc = "fgets"
    /\ pc' = AfterFgets(FALSE, TRUE)
    /\ rdErr' = rdErr \cup {i}
    /\ \E g \in GarbageBytes : line' = [j \in DOMAIN line |-> g]
    /\ UNCHANGED <<argv, i, fp, pos, stdout, exitCode, opened, mark, closed,
                   start, load, wr, nDiag, oob>>

\* faulty variant (C8): line 21 left out
ForceTerm_none(s) == s

\* line 21: line[MAX_LINE_LENGTH-1] = 0;
ForceTerm(s) == [s EXCEPT ![MAX_LINE_LENGTH - 1] = NUL]

Term ==
    /\ pc = "term"
    /\ line' = ForceTerm(line)
    /\ pc' = "printf"
    /\ UNCHANGED <<argv, i, fp, pos, stdout, exitCode, opened, mark, closed,
                   start, load, wr, rdErr, nDiag, oob>>

\* line 22: printf("%s", line);
Printf ==
    /\ pc = "printf"
    /\ wr' = PrintfS(line)
    /\ stdout' = stdout \o wr'
    /\ oob' = (oob \/ Strlen(line) > MAX_LINE_LENGTH - 1)
    /\ pc' = "fgets"
    /\ UNCHANGED <<argv, line, i, fp, pos, exitCode, opened, mark, closed,
                   start, load, rdErr, nDiag>>

\* faulty variant (C6): fclose left out
Fclose_leak ==
    /\ pc = "fclose"
    /\ closed' = Append(closed, i)
    /\ i' = i + 1
    /\ IF i + 1 < argc
       THEN pc' = "fopen" /\ exitCode' = exitCode
       ELSE pc' = "done" /\ exitCode' = 0
    /\ UNCHANGED <<argv, line, fp, pos, stdout, opened, mark, start, load,
                   wr, rdErr, nDiag, oob>>

\* faulty variant (C9): i++ left out
Fclose_again ==
    /\ pc = "fclose"
    /\ fp' = fp \ {i}
    /\ closed' = Append(closed, i)
    /\ IF i < argc
       THEN pc' = "fopen" /\ exitCode' = exitCode
       ELSE pc' = "done" /\ exitCode' = 0
    /\ UNCHANGED <<argv, line, i, pos, stdout, opened, mark, start, load,
                   wr, rdErr, nDiag, oob>>

\* lines 25, 13, 28: fclose(f);  i++, i < argc;  return 0;
Fclose ==
    /\ pc = "fclose"
    /\ fp' = fp \ {i}
    /\ closed' = Append(closed, i)
    /\ i' = i + 1
    /\ IF i + 1 < argc
       THEN pc' = "fopen" /\ exitCode' = exitCode
       ELSE pc' = "done" /\ exitCode' = 0
    /\ UNCHANGED <<argv, line, pos, stdout, opened, mark, start, load, wr,
                   rdErr, nDiag, oob>>

Next ==
    \/ Start
    \/ Fopen
    \/ Fail
    \/ Fgets
    \/ FgetsError
    \/ Term
    \/ Printf
    \/ Fclose

Spec == Init /\ [][Next]_vars

Labels == {"start", "fopen", "fail", "fgets", "term", "printf", "fclose",
           "done"}

\* main is one sequential thread: until it has returned it executes its
\* next statement, and every statement moves pc
Running == pc # "done" /\ pc' \in Labels \ {pc}

FairSpec == Spec /\ WF_pc(Running)

----------------------------------------------------------------------------
(* Vocabulary of the properties *)

Ids(n) == [k \in 1..n |-> k]

\* the contents of the first k paths, one after another
RECURSIVE Cat(_)
Cat(k) == IF k = 0 THEN <<>> ELSE Cat(k - 1) \o Content(argv[k])

HasNul(data) == FirstByte(data, NUL, 1, Len(data)) <= Len(data)

\* the bytes of `data` before its first zero byte
UpToNul(data) == SubSeq(data, 1, FirstByte(data, NUL, 1, Len(data)) - 1)

\* no newline in `data`, except as its last byte
SingleLine(data) == FirstByte(data, NL, 1, Len(data)) >= Len(data)

AllOpen == \A k \in 1..Len(argv) : argv[k].ok

\* the least index whose path cannot be opened, Len(argv)+1 when all can
FirstBad ==
    Cardinality({k \in 1..Len(argv) : \A m \in 1..k : argv[m].ok}) + 1

NoNulBefore(k) == \A m \in 1..(k - 1) : ~HasNul(Content(argv[m]))

\* what was written since the stream now open was opened
SinceOpen == SubSeq(stdout, mark + 1, Len(stdout))

Count(seq, x) == Cardinality({k \in 1..Len(seq) : seq[k] = x})

Phase ==
    CASE pc = "start" -> "Idle"
      [] pc = "fopen" -> "OpeningFile"
      [] pc \in {"fgets", "term", "printf", "fclose"} -> "StreamingFile"
      [] pc = "fail" -> "Failed"
      [] pc = "done" -> "Done"

----------------------------------------------------------------------------
(* C1 *)

\* C1 as stated, and only for runs in which no read fails: when every path
\* opens, the run ends with exit code 0 and standard output is the contents
\* of the paths in argument order, whatever bytes they hold.
C1_ConcatAnyBytes ==
    (pc = "done" /\ Len(argv) >= 1 /\ AllOpen /\ rdErr = {})
        => (stdout = Cat(Len(argv)) /\ exitCode = 0)

\* C1 (amended): when every path opens, no read fails and no file holds a
\* zero byte, the run ends with exit code 0 and standard output is exactly
\* the contents of the paths, one after another in argument order.
C1_Concat ==
    (pc = "done" /\ Len(argv) >= 1 /\ AllOpen /\ rdErr = {}
        /\ NoNulBefore(Len(argv) + 1))
        => (stdout = Cat(Len(argv)) /\ exitCode = 0)

C1_Witness ==
    /\ pc = "done" /\ Len(argv) >= 2 /\ AllOpen /\ rdErr = {}
    /\ NoNulBefore(Len(argv) + 1)
    /\ Len(Content(argv[1])) > Chunk /\ Len(Content(argv[2])) > 0
    /\ stdout = Cat(Len(argv))

----------------------------------------------------------------------------
(* C2 *)

\* C2 as stated, and only for runs in which no read fails: when path k is
\* the first that cannot be opened, standard output is the contents of
\* paths 1..k-1 followed by the diagnostic, printed once, the exit code is
\* 1 and fopen was called for paths 1..k and no other.
C2_FailFastAnyBytes ==
    (pc = "done" /\ FirstBad <= Len(argv) /\ rdErr = {})
        => /\ stdout = Cat(FirstBad - 1) \o Diag
           /\ nDiag = 1
           /\ exitCode = 1
           /\ opened = Ids(FirstBad)

\* C2 (amended): the same, when no read fails and none of paths 1..k-1
\* holds a zero byte.
C2_FailFast ==
    (pc = "done" /\ FirstBad <= Len(argv) /\ rdErr = {}
        /\ NoNulBefore(FirstBad))
        => /\ stdout = Cat(FirstBad - 1) \o Diag
           /\ nDiag = 1
           /\ exitCode = 1
           /\ opened = Ids(FirstBad)

C2_Witness ==
    /\ pc = "done" /\ FirstBad = 2 /\ rdErr = {} /\ NoNulBefore(2)
    /\ Len(Content(argv[1])) > Chunk
    /\ stdout = Content(argv[1]) \o Diag /\ exitCode = 1

----------------------------------------------------------------------------
(* C3 *)

\* C3: a run with no path writes nothing to standard output, calls fopen
\* for nothing, and returns 0.
C3_NoArguments ==
    Len(argv) = 0
        => /\ stdout = <<>> /\ opened = <<>> /\ fp = {}
           /\ pc \in {"start", "done"}
           /\ pc = "done" => exitCode = 0

C3_Witness == pc = "done" /\ Len(argv) = 0 /\ exitCode = 0

----------------------------------------------------------------------------
(* C4 *)

\* C4 as stated, and only when no read of the file fails: a file that is
\* one line of more than MAX_LINE_LENGTH-1 bytes, with or without a final
\* newline, is written out byte for byte.
C4_LongLineAnyBytes ==
    (pc = "fclose" /\ i \notin rdErr /\ SingleLine(Content(argv[i]))
        /\ Len(Content(argv[i])) > MAX_LINE_LENGTH - 1)
        => SinceOpen = Content(argv[i])

\* C4 (amended): the same, for a line that holds no zero byte.
C4_LongLine ==
    (pc = "fclose" /\ i \notin rdErr /\ SingleLine(Content(argv[i]))
        /\ Len(Content(argv[i])) > MAX_LINE_LENGTH - 1
        /\ ~HasNul(Content(argv[i])))
        => SinceOpen = Content(argv[i])

\* a line of exactly two full loads has been streamed
C4_Witness ==
    /\ pc = "fclose" /\ i \notin rdErr /\ SingleLine(Content(argv[i]))
    /\ ~HasNul(Content(argv[i]))
    /\ Len(Content(argv[i])) = 2 * Chunk
    /\ SinceOpen = Content(argv[i])

----------------------------------------------------------------------------
(* C5 *)

\* C5: a read that returns no data, at end of file or on a read error, only
\* ends the streaming of the current file: the stream is closed next, the
\* diagnostic is printed for a failed fopen and for nothing else, a run
\* that returns 0 has opened and closed every path, and the exit code is 1
\* exactly when some fopen failed.
C5_NoReadError ==
    /\ \A k \in rdErr : k \in fp => (pc = "fclose" /\ i = k)
    /\ pc = "fclose" => (i \in rdErr \/ pos = Len(Content(argv[i])))
    /\ nDiag = (IF pc = "done" /\ FirstBad <= Len(argv) THEN 1 ELSE 0)
    /\ pc = "done" =>
          /\ exitCode \in {0, 1}
          /\ exitCode = 1 <=> (\E k \in 1..Len(argv) : ~argv[k].ok)
          /\ exitCode = 0 =>
                (opened = Ids(Len(argv)) /\ closed = Ids(Len(argv)))

\* the first stream had a read error; the second path was streamed and the
\* run returned 0
C5_Witness ==
    /\ pc = "done" /\ exitCode = 0 /\ 1 \in rdErr /\ Len(argv) = 2
    /\ pos > 0 /\ closed = <<1, 2>> /\ nDiag = 0
    /\ Len(stdout) < Len(Content(argv[1])) + Len(Content(argv[2]))

----------------------------------------------------------------------------
(* C6 *)

\* C6: at most one stream is open at any time; none is open when fopen is
\* called or when main has returned; a stream is closed only once it is
\* drained, and every stream that was opened is either the open one or has
\* been closed exactly once.
C6_OneHandle ==
    /\ Cardinality(fp) <= 1
    /\ pc \in {"start", "fopen", "fail", "done"} => fp = {}
    /\ \A k \in 1..Len(opened) :
          argv[opened[k]].ok =>
              Count(closed, opened[k]) = (IF opened[k] \in fp THEN 0 ELSE 1)
    /\ \A k \in 1..Len(closed) : Count(opened, closed[k]) = 1
    /\ pc = "fclose" => (i \in rdErr \/ pos = Len(Content(argv[i])))

\* the second stream is open and the first has been closed
C6_Witness ==
    pc = "printf" /\ i = 2 /\ fp = {2} /\ closed = <<1>> /\ opened = <<1, 2>>

----------------------------------------------------------------------------
(* C7 *)

\* C7 as stated: a load of fewer than MAX_LINE_LENGTH-1 = 999 bytes ended at
\* a newline or at end of file, and a line of at most 999 bytes, newline
\* included, is one load.
C7_Granularity999 ==
    pc = "term" =>
        LET data == Content(argv[i])
            e == FirstByte(data, NL, start + 1, Len(data))
            lineLen == (IF e <= Len(data) THEN e ELSE Len(data)) - start
        IN  /\ Len(load) < MAX_LINE_LENGTH - 1 =>
                  (load[Len(load)] = NL \/ pos = Len(data))
            /\ ((start = 0 \/ data[start] = NL)
                  /\ lineLen <= MAX_LINE_LENGTH - 1) => Len(load) = lineLen

\* C7 (amended): read granularity is MAX_LINE_LENGTH-2 = 998 bytes.  Each
\* load is the bytes from the read position up to and including the next
\* newline, or up to end of file, or 998 bytes, whichever comes first, and
\* the buffer holds them; a load of fewer than 998 bytes ended at a newline
\* or at end of file, and a line of at most 998 bytes, newline included, is
\* one load.
C7_Granularity ==
    pc = "term" =>
        LET data == Content(argv[i])
            e == FirstByte(data, NL, start + 1, Len(data))
            lineLen == (IF e <= Len(data) THEN e ELSE Len(data)) - start
        IN  /\ Len(load) >= 1 /\ Len(load) <= MAX_LINE_LENGTH - 2
            /\ pos = start + Len(load)
            /\ load = SubSeq(data, start + 1, pos)
            /\ \A j \in 1..Len(load) : line[j - 1] = load[j]
            /\ \A j \in 1..(Len(load) - 1) : load[j] # NL
            /\ Len(load) < MAX_LINE_LENGTH - 2 =>
                  (load[Len(load)] = NL \/ pos = Len(data))
            /\ ((start = 0 \/ data[start] = NL)
                  /\ lineLen <= MAX_LINE_LENGTH - 2) => Len(load) = lineLen

\* a full load that ends neither at a newline nor at end of file
C7_Witness ==
    /\ pc = "term" /\ Len(load) = MAX_LINE_LENGTH - 2
    /\ load[Len(load)] # NL /\ pos < Len(Content(argv[i]))

----------------------------------------------------------------------------
(* C8 *)

\* C8: when printf is about to run, line[MAX_LINE_LENGTH-1] is zero and a
\* zero byte lies at or after the end of the bytes just read; fgets stored
\* into indices 0..MAX_LINE_LENGTH-1 only and printf never scans past
\* index MAX_LINE_LENGTH-1.
C8_BufferBounds ==
    /\ DOMAIN line = 0..(MAX_LINE_LENGTH - 1)
    /\ ~oob
    /\ pc \in {"term", "printf"} => Len(load) <= MAX_LINE_LENGTH - 1
    /\ pc = "printf" =>
          /\ line[MAX_LINE_LENGTH - 1] = NUL
          /\ FirstByte(line, NUL, Len(load), MAX_LINE_LENGTH - 1)
                <= MAX_LINE_LENGTH - 1

\* a full load is in the buffer, about to be printed
C8_Witness ==
    /\ pc = "printf" /\ Len(load) = Chunk /\ line[Chunk] = NUL
    /\ line[MAX_LINE_LENGTH - 1] = NUL /\ ~HasNul(load)

----------------------------------------------------------------------------
(* C9 *)

\* the phase changes C9 lists
PhaseStep(a, b) ==
    \/ a = b
    \/ a = "Idle" /\ b = "OpeningFile"
    \/ a = "OpeningFile" /\ b \in {"StreamingFile", "Failed"}
    \/ a = "StreamingFile" /\ b \in {"OpeningFile", "Done"}
    \/ a = "Failed" /\ b = "Done"

\* C9 as stated, its phase order: every step of the run follows Idle ->
\* OpeningFile -> StreamingFile -> (OpeningFile | Done) or OpeningFile ->
\* Failed -> Done.
C9_PhaseOrderOnly == [][PhaseStep(Phase, Phase')]_vars

\* ... and the return of line 9, taken when no path is given
PhaseStepOrIdleDone ==
    \/ PhaseStep(Phase, Phase')
    \/ Phase = "Idle" /\ Phase' = "Done" /\ Len(argv) = 0

\* in Failed and Done nothing is opened or read, and nothing but the
\* diagnostic is written
QuietOnceOver ==
    Phase \in {"Failed", "Done"} =>
        /\ opened' = opened /\ fp' = fp /\ pos' = pos /\ load' = load
        /\ \/ stdout' = stdout
           \/ Phase = "Failed" /\ stdout' = stdout \o Diag

\* C9 (amended): the run reaches Done; it gets there along the phase
\* changes C9 lists or, when there is no path, directly from Idle; a
\* failed fopen leads through Failed to Done with exit code 1; in Failed
\* and Done nothing is opened or read and nothing but the diagnostic is
\* written; fopen is called for paths 1, 2, ... in this order, each once.
C9_Termination ==
    /\ <>(pc = "done")
    /\ [][PhaseStepOrIdleDone]_vars
    /\ [][Phase = "Failed" => (Phase' = "Done" /\ exitCode' = 1)]_vars
    /\ [][QuietOnceOver]_vars
    /\ [](opened = Ids(Len(opened)) /\ Len(opened) <= Len(argv))

\* a run of two paths has returned
C9_Witness ==
    pc = "done" /\ opened = <<1, 2>> /\ closed = <<1, 2>> /\ exitCode = 0

----------------------------------------------------------------------------
(* C10 *)

\* the step appends the last load, cut at its first zero byte
WritesLoadUpToNul ==
    /\ stdout' = stdout \o UpToNul(load)
    /\ pc' = "fgets" /\ pos' = start + Len(load)

\* C10: printf emits the bytes of the load just read up to, and not
\* including, its first zero byte (all of them when it holds none), and the
\* loop goes on with the next fgets at the position after the load.
C10_WriteUpToNul ==
    [][pc = "printf" => WritesLoadUpToNul]_vars

\* a load with a zero byte was printed short, and the stream has more
C10_Witness ==
    /\ pc = "fgets" /\ HasNul(load) /\ wr = UpToNul(load)
    /\ Len(wr) < Len(load) /\ Len(wr) > 0
    /\ load = SubSeq(Content(argv[i]), start + 1, pos)
    /\ pos < Len(Content(argv[i]))

====
